---- MODULE Spec2Model ----
(***************************************************************************)
(* robothub FrameBuffer (src/src/robothub/frame_buffer.py): one producer   *)
(* thread runs default_callback, caller threads run save_video.  Steps are *)
(* the points where the two kinds of thread can interleave: every step     *)
(* touches the shared deque or the shared set of queues at most once.      *)
(***************************************************************************)
EXTENDS Integers, Sequences, FiniteSets, TLC

\* ---- bounds of the model
MaxFrames == 4
MaxCap == 2
MaxBefore == 2
MaxAfter == 1
MaxFps == 2
MaxFailures == 4
MaxClock == 3
MaxBacklog == 2

\* ---- program values
None == -1
Callers == {1, 2}
TsSteps == {0, 1}
ConcurrentAfter == {0, 1}
ConcurrentCapacities == {1, 2}
Capacities == (0..MaxCap) \cup {None}
Outcomes == {"none", "artifact", "ImportError", "InvalidParameter",
             "InsufficientHistory", "TypeError", "IsliceValueError",
             "IndexError", "MuxingFailure", "NotCallable"}

VARIABLES
    av,                \* module global `av`: TRUE when PyAV was importable
    maxlen,            \* self.buffer.maxlen
    buffer,            \* self.buffer (the deque), oldest first
    temporary_queues,  \* self.temporary_queues; a queue is named by its caller
    queue,             \* queue[c]: frames waiting in the caller's temp_queue
    ppc,               \* producer position inside default_callback
    packet,            \* default_callback's argument (id 0: none)
    snapshot,          \* queues of temporary_queues.copy() still to be put to
    pc,                \* pc[c]: caller position inside save_video
    args,              \* args[c]: before_seconds, after_seconds, fps
    video_frames_before,
    video_frames_after,
    latest_t_before,
    outcome,           \* how the call ended
    muxed,             \* packets handed to _mux_video
    ingested,          \* history: every frame appended, in order
    received,          \* history: every frame temp_queue.get has returned
    bufAtCall,         \* history: the deque as line 91 saw it
    queuesAtCall,      \* history: temporary_queues when the call began
    regIdx,            \* history: frames appended before the queue was added
    unregIdx,          \* history: callbacks completed when the queue was removed
    how,               \* how[c]: entry point, on_complete, return_bytes
    result,            \* video_res as returned to the caller
    disk,              \* artifact files that exist; a file is named by its call
    on_complete_calls, \* what the supplied on_complete was called with
    sent_events,       \* what send_video_event was called with
    stop_event,        \* app.stop_event
    timeoutsAfterStop, \* history: gets timed out since stop_event was set
    cam_pc,            \* HubCamera: position inside _connect / start
    state,             \* HubCamera.state
    failures,          \* HubCamera: failed attempts so far
    stoppedByOther     \* history: someone other than HubCamera set stop_event

vars == <<av, maxlen, buffer, temporary_queues, queue, ppc, packet, snapshot,
          pc, args, video_frames_before, video_frames_after, latest_t_before,
          outcome, muxed, ingested, received, bufAtCall, queuesAtCall,
          regIdx, unregIdx, how, result, disk, on_complete_calls,
          sent_events, stop_event, timeoutsAfterStop, cam_pc, state, failures,
          stoppedByOther>>

finishVars == <<result, disk, on_complete_calls, sent_events>>
appVars == <<stop_event, timeoutsAfterStop>>
cameraVars == <<cam_pc, state, failures, stoppedByOther>>
frameBufferVars == <<av, maxlen, buffer, temporary_queues, queue, ppc, packet,
                     snapshot, pc, args, video_frames_before,
                     video_frames_after, latest_t_before, outcome, muxed,
                     ingested, received, bufAtCall, queuesAtCall, regIdx,
                     unregIdx, how, result, disk, on_complete_calls,
                     sent_events>>

producerVars == <<buffer, ppc, packet, snapshot, ingested>>
callVars == <<pc, args, video_frames_before, video_frames_after,
              latest_t_before, outcome, muxed, bufAtCall, queuesAtCall>>

\* ---- helpers
NoFrame == [id |-> 0, ts |-> 0]

Last(s) == s[Len(s)]

Min(a, b) == IF a < b THEN a ELSE b

\* the most recent k elements of s, in order
MostRecent(s, k) == SubSeq(s, Len(s) - Min(k, Len(s)) + 1, Len(s))

\* a bounded deque that refuses the new element once it is full
dequeAppendKeepOldest(d, x, cap) ==
    IF cap # None /\ Len(d) >= cap THEN d ELSE Append(d, x)

\* collections.deque(maxlen=...).append
dequeAppend(d, x, cap) ==
    IF cap = None THEN Append(d, x)
    ELSE IF cap = 0 THEN d
    ELSE IF Len(d) >= cap THEN Append(Tail(d), x)
    ELSE Append(d, x)

\* list(itertools.islice(self.buffer, int(start), None)): 0-based start
get_slice(d, start) == SubSeq(d, start + 1, Len(d))

\* datetime.timedelta(seconds=s); timestamps are counted in whole seconds
timedelta(s) == s

\* a queue that loses what is put into it
QueuePutLost(q, p) == q

\* a LIFO queue in place of the FIFO one
QueuePutFront(q, x) == <<x>> \o q

\* Queue.put: FIFO, unbounded
QueuePut(q, x) == Append(q, x)

\* a fan-out loop that stops after its first queue
FanOutFirstOnly(tq) == IF tq = {} THEN {} ELSE {CHOOSE q \in tq : TRUE}

\* the queues one default_callback call puts the packet to
FanOut(tq) == tq

\* validation without the capacity check of line 87
ValidateNoCapacity(before_seconds, after_seconds, fps) ==
    IF ~av THEN "ImportError"
    ELSE IF before_seconds < 0 \/ after_seconds < 0 THEN "InvalidParameter"
    ELSE IF maxlen = None THEN "TypeError"
    ELSE "none"

\* validation that tests before_seconds only on line 85
ValidateBeforeOnly(before_seconds, after_seconds, fps) ==
    IF ~av THEN "ImportError"
    ELSE IF before_seconds < 0 THEN "InvalidParameter"
    ELSE IF maxlen = None THEN "TypeError"
    ELSE IF before_seconds * fps > maxlen THEN "InsufficientHistory"
    ELSE "none"

\* lines 81-88 of save_video: the error raised, or "none"
Validate(before_seconds, after_seconds, fps) ==
    IF ~av THEN "ImportError"
    ELSE IF before_seconds < 0 \/ after_seconds < 0 THEN "InvalidParameter"
    ELSE IF maxlen = None THEN "TypeError"
    ELSE IF before_seconds * fps > maxlen THEN "InsufficientHistory"
    ELSE "none"

\* a slice that pops what it reads
dequeAfterSlicePopped(d, start) == SubSeq(d, 1, Min(start, Len(d)))

\* the deque once get_slice has read it: islice iterates, it removes nothing
dequeAfterSlice(d, start) == d

\* save_video called directly, with a callback, return_bytes left False
DirectCall ==
    [entry |-> "save_video", callback |-> "supplied", return_bytes |-> FALSE]

\* the ways the extraction is entered: process_video_event always passes
\* return_bytes=False (line 57)
Hows ==
    {[entry |-> e, callback |-> cb, return_bytes |-> rb] :
        e \in {"save_video", "process_video_event"},
        cb \in {"supplied", "omitted"}, rb \in BOOLEAN}
    \ {h \in [entry : {"process_video_event"},
               callback : {"supplied", "omitted"}, return_bytes : {TRUE}] : TRUE}

\* the on_complete save_video ends up with: the caller's callback, the
\* default lambda of line 68, or the None that process_video_event's own
\* default (line 50) hands over on line 58
OnComplete(h) ==
    IF h.callback = "supplied" THEN "supplied"
    ELSE IF h.entry = "process_video_event" THEN "None"
    ELSE "lambda"

\* lines 143-146: what _mux_video returns
VideoRes(h) == IF h.return_bytes THEN "bytes" ELSE "path"

\* the with block of line 129 ends: the directory and the file in it go
TemporaryDirectoryExit(files, c) == files \ {c}

\* line 91: the start index handed to get_slice
SliceStart(before_seconds, fps) == maxlen - before_seconds * fps

\* a loop that keeps every frame it gets
KeepAfterAlways(timestamp, latest) == TRUE

\* line 102: is the received packet kept
KeepAfter(timestamp, latest) == timestamp > latest

\* line 104: does the received packet end the loop
WindowClosed(timestamp, latest, after_seconds) ==
    timestamp - latest > timedelta(after_seconds)

\* every frame put into the caller's queue so far, in the order it leaves it
Delivered(c) == received[c] \o queue[c]

\* callbacks that have run to their end
Completed == IF ppc = "idle" THEN Len(ingested) ELSE Len(ingested) - 1

\* ---- initial state: FrameBuffer.__init__
Init ==
    /\ av \in BOOLEAN
    /\ maxlen \in Capacities
    /\ buffer = <<>>
    /\ temporary_queues = {}
    /\ queue = [c \in Callers |-> <<>>]
    /\ ppc = "idle"
    /\ packet = NoFrame
    /\ snapshot = {}
    /\ pc = [c \in Callers |-> "idle"]
    /\ args = [c \in Callers |-> [before |-> 0, after |-> 0, fps |-> 1]]
    /\ video_frames_before = [c \in Callers |-> <<>>]
    /\ video_frames_after = [c \in Callers |-> <<>>]
    /\ latest_t_before = [c \in Callers |-> 0]
    /\ outcome = [c \in Callers |-> "none"]
    /\ muxed = [c \in Callers |-> <<>>]
    /\ ingested = <<>>
    /\ received = [c \in Callers |-> <<>>]
    /\ bufAtCall = [c \in Callers |-> <<>>]
    /\ queuesAtCall = [c \in Callers |-> {}]
    /\ regIdx = [c \in Callers |-> 0]
    /\ unregIdx = [c \in Callers |-> 0]
    /\ how = [c \in Callers |-> DirectCall]
    /\ result = [c \in Callers |-> "none"]
    /\ disk = {}
    /\ on_complete_calls = [c \in Callers |-> <<>>]
    /\ sent_events = [c \in Callers |-> <<>>]
    /\ stop_event = FALSE
    /\ timeoutsAfterStop = [c \in Callers |-> 0]
    /\ cam_pc = "off"
    /\ state = "UNKNOWN"
    /\ failures = 0
    /\ stoppedByOther = FALSE

\* ---- producer thread: default_callback(packet)
\* line 152: self.buffer.append(packet)
AppendPacket(p) ==
    /\ ppc = "idle"
    /\ packet' = p
    /\ buffer' = dequeAppend(buffer, p, maxlen)
    /\ ppc' = "appended"
    /\ UNCHANGED <<av, maxlen, temporary_queues, queue, snapshot, received,
                   regIdx, unregIdx>>
    /\ UNCHANGED callVars
    /\ UNCHANGED <<how, finishVars, appVars, cameraVars>>

\* default_callback is called with the next packet of the stream, which is
\* recorded in the ingestion history
BufferAppend(step) ==
    /\ Len(ingested) < MaxFrames
    /\ LET prev == IF ingested = <<>> THEN 0 ELSE Last(ingested).ts
           p == [id |-> Len(ingested) + 1, ts |-> prev + step]
       IN /\ AppendPacket(p)
          /\ ingested' = Append(ingested, p)

\* default_callback is called with the next packet of a stream that never
\* ends: no history is kept, the device clock stops advancing at MaxClock,
\* and the producer is never more than MaxBacklog packets ahead of a reader
Ingest(step) ==
    /\ \A q \in temporary_queues : Len(queue[q]) < MaxBacklog
    /\ AppendPacket([id |-> 0, ts |-> Min(packet.ts + step, MaxClock)])
    /\ UNCHANGED ingested

\* line 153: self.temporary_queues.copy()
CopyQueues ==
    /\ ppc = "appended"
    /\ snapshot' = FanOut(temporary_queues)
    /\ ppc' = "putting"
    /\ UNCHANGED <<av, maxlen, buffer, temporary_queues, queue, packet,
                   ingested, received, regIdx, unregIdx>>
    /\ UNCHANGED callVars
    /\ UNCHANGED <<how, finishVars, appVars, cameraVars>>

\* line 154: q.put(packet), one queue of the copy per step
Put(q) ==
    /\ ppc = "putting"
    /\ q \in snapshot
    /\ queue' = [queue EXCEPT ![q] = QueuePut(@, packet)]
    /\ snapshot' = snapshot \ {q}
    /\ UNCHANGED <<av, maxlen, buffer, temporary_queues, ppc, packet,
                   ingested, received, regIdx, unregIdx>>
    /\ UNCHANGED callVars
    /\ UNCHANGED <<how, finishVars, appVars, cameraVars>>

\* the for loop of line 153 is exhausted: default_callback returns
CallbackReturn ==
    /\ ppc = "putting"
    /\ snapshot = {}
    /\ ppc' = "idle"
    /\ UNCHANGED <<av, maxlen, buffer, temporary_queues, queue, packet,
                   snapshot, ingested, received, regIdx, unregIdx>>
    /\ UNCHANGED callVars
    /\ UNCHANGED <<how, finishVars, appVars, cameraVars>>

\* ---- caller threads: save_video
\* lines 81-92: validation, then the history slice; itertools.islice raises
\* ValueError on a negative start
Call(c, before_seconds, after_seconds, fps, h) ==
    /\ pc[c] = "idle"
    /\ how' = [how EXCEPT ![c] = h]
    /\ args' = [args EXCEPT ![c] = [before |-> before_seconds,
                                    after |-> after_seconds, fps |-> fps]]
    /\ bufAtCall' = [bufAtCall EXCEPT ![c] = buffer]
    /\ queuesAtCall' = [queuesAtCall EXCEPT ![c] = temporary_queues]
    /\ LET err == Validate(before_seconds, after_seconds, fps)
       IN IF err # "none"
          THEN /\ pc' = [pc EXCEPT ![c] = "done"]
               /\ outcome' = [outcome EXCEPT ![c] = err]
               /\ UNCHANGED video_frames_before
          ELSE IF SliceStart(before_seconds, fps) < 0
          THEN /\ pc' = [pc EXCEPT ![c] = "done"]
               /\ outcome' = [outcome EXCEPT ![c] = "IsliceValueError"]
               /\ UNCHANGED video_frames_before
          ELSE /\ pc' = [pc EXCEPT ![c] = "sliced"]
               /\ video_frames_before' = [video_frames_before EXCEPT ![c] =
                      get_slice(buffer, SliceStart(before_seconds, fps))]
               /\ UNCHANGED outcome
    /\ buffer' = IF Validate(before_seconds, after_seconds, fps) = "none"
                    /\ SliceStart(before_seconds, fps) >= 0
                 THEN dequeAfterSlice(buffer, SliceStart(before_seconds, fps))
                 ELSE buffer
    /\ UNCHANGED <<av, maxlen, temporary_queues, queue, video_frames_after,
                   latest_t_before, muxed, received, regIdx, unregIdx>>
    /\ UNCHANGED <<ppc, packet, snapshot, ingested>>
    /\ UNCHANGED <<finishVars, appVars, cameraVars>>

\* lines 93-94: temp_queue = Queue(); self.temporary_queues.add(temp_queue)
Register(c) ==
    /\ pc[c] = "sliced"
    /\ temporary_queues' = temporary_queues \cup {c}
    /\ regIdx' = [regIdx EXCEPT ![c] = Len(ingested)]
    /\ pc' = [pc EXCEPT ![c] = "registered"]
    /\ UNCHANGED <<av, maxlen, queue, args, video_frames_before,
                   video_frames_after, latest_t_before, outcome, muxed,
                   received, bufAtCall, queuesAtCall, unregIdx>>
    /\ UNCHANGED producerVars
    /\ UNCHANGED <<how, finishVars, appVars, cameraVars>>

\* line 95: video_frames_before[-1]; IndexError on an empty list
Boundary(c) ==
    /\ pc[c] = "registered"
    /\ IF video_frames_before[c] = <<>>
       THEN /\ pc' = [pc EXCEPT ![c] = "done"]
            /\ outcome' = [outcome EXCEPT ![c] = "IndexError"]
            /\ UNCHANGED latest_t_before
       ELSE /\ pc' = [pc EXCEPT ![c] = "loop"]
            /\ latest_t_before' = [latest_t_before EXCEPT ![c] =
                   Last(video_frames_before[c]).ts]
            /\ UNCHANGED outcome
    /\ UNCHANGED <<av, maxlen, temporary_queues, queue, args,
                   video_frames_before, video_frames_after, muxed, received,
                   bufAtCall, queuesAtCall, regIdx, unregIdx>>
    /\ UNCHANGED producerVars
    /\ UNCHANGED <<how, finishVars, appVars, cameraVars>>

\* lines 100-105: temp_queue.get returned a packet
TakePacket(c) ==
    /\ pc[c] = "loop"
    /\ queue[c] # <<>>
    /\ LET p == Head(queue[c])
       IN /\ queue' = [queue EXCEPT ![c] = Tail(@)]
          /\ video_frames_after' = [video_frames_after EXCEPT ![c] =
                 IF KeepAfter(p.ts, latest_t_before[c]) THEN Append(@, p) ELSE @]
          /\ pc' = [pc EXCEPT ![c] =
                 IF WindowClosed(p.ts, latest_t_before[c], args[c].after)
                 THEN "collected" ELSE "loop"]
    /\ UNCHANGED <<av, maxlen, temporary_queues, args, video_frames_before,
                   latest_t_before, outcome, muxed, bufAtCall, queuesAtCall,
                   regIdx, unregIdx>>
    /\ UNCHANGED producerVars
    /\ UNCHANGED <<how, finishVars, appVars, cameraVars>>

\* the packet taken is recorded in the history of the queue
Get(c) ==
    /\ TakePacket(c)
    /\ received' = [received EXCEPT ![c] = Append(@, Head(queue[c]))]

\* the same step of a call on the stream that never ends: no history
GetLive(c) ==
    /\ TakePacket(c)
    /\ UNCHANGED received

\* lines 106-107: temp_queue.get timed out (Empty); the loop goes round
GetTimeout(c) ==
    /\ pc[c] = "loop"
    /\ queue[c] = <<>>
    /\ timeoutsAfterStop' = [timeoutsAfterStop EXCEPT ![c] =
           IF stop_event /\ @ < 2 THEN @ + 1 ELSE @]
    /\ UNCHANGED <<frameBufferVars, stop_event, cameraVars>>

\* a call that leaves its queue in the set
UnsubscribeKeepsQueue(c) ==
    /\ pc[c] = "collected"
    /\ unregIdx' = [unregIdx EXCEPT ![c] = Completed]
    /\ pc' = [pc EXCEPT ![c] = "unsubscribed"]
    /\ UNCHANGED <<av, maxlen, temporary_queues, queue, args,
                   video_frames_before, video_frames_after, latest_t_before,
                   outcome, muxed, received, bufAtCall, queuesAtCall, regIdx>>
    /\ UNCHANGED producerVars
    /\ UNCHANGED <<how, finishVars, appVars, cameraVars>>

\* line 109: self.temporary_queues.remove(temp_queue)
Unsubscribe(c) ==
    /\ pc[c] = "collected"
    /\ temporary_queues' = temporary_queues \ {c}
    /\ unregIdx' = [unregIdx EXCEPT ![c] = Completed]
    /\ pc' = [pc EXCEPT ![c] = "unsubscribed"]
    /\ UNCHANGED <<av, maxlen, queue, args, video_frames_before,
                   video_frames_after, latest_t_before, outcome, muxed,
                   received, bufAtCall, queuesAtCall, regIdx>>
    /\ UNCHANGED producerVars
    /\ UNCHANGED <<how, finishVars, appVars, cameraVars>>

\* lines 110-114 and 129-142: _mux_video writes before + after into a file
\* of a fresh TemporaryDirectory; AvWriter may raise, and the directory is
\* removed as the exception leaves the with block
MuxWrite(c, ok) ==
    /\ pc[c] = "unsubscribed"
    /\ muxed' = [muxed EXCEPT ![c] =
           video_frames_before[c] \o video_frames_after[c]]
    /\ IF ok
       THEN /\ disk' = disk \cup {c}
            /\ pc' = [pc EXCEPT ![c] = "muxing"]
            /\ UNCHANGED outcome
       ELSE /\ disk' = disk
            /\ pc' = [pc EXCEPT ![c] = "done"]
            /\ outcome' = [outcome EXCEPT ![c] = "MuxingFailure"]
    /\ UNCHANGED <<av, maxlen, temporary_queues, queue, args,
                   video_frames_before, video_frames_after, latest_t_before,
                   received, bufAtCall, queuesAtCall, regIdx, unregIdx>>
    /\ UNCHANGED producerVars
    /\ UNCHANGED <<how, result, on_complete_calls, sent_events, appVars,
                   cameraVars>>

\* lines 143-146, 116-117 and 59: _mux_video returns the path or the bytes
\* and its with block ends, on_complete is called, save_video returns, and
\* process_video_event passes the result to send_video_event
MuxReturn(c) ==
    /\ pc[c] = "muxing"
    /\ disk' = TemporaryDirectoryExit(disk, c)
    /\ pc' = [pc EXCEPT ![c] = "done"]
    /\ IF OnComplete(how[c]) = "None"
       THEN /\ outcome' = [outcome EXCEPT ![c] = "NotCallable"]
            /\ UNCHANGED <<result, on_complete_calls, sent_events>>
       ELSE /\ outcome' = [outcome EXCEPT ![c] = "artifact"]
            /\ result' = [result EXCEPT ![c] = VideoRes(how[c])]
            /\ on_complete_calls' = [on_complete_calls EXCEPT ![c] =
                   IF OnComplete(how[c]) = "supplied"
                   THEN Append(@, VideoRes(how[c])) ELSE @]
            /\ sent_events' = [sent_events EXCEPT ![c] =
                   IF how[c].entry = "process_video_event"
                   THEN Append(@, VideoRes(how[c])) ELSE @]
    /\ UNCHANGED <<av, maxlen, temporary_queues, queue, args,
                   video_frames_before, video_frames_after, latest_t_before,
                   muxed, received, bufAtCall, queuesAtCall, regIdx, unregIdx>>
    /\ UNCHANGED producerVars
    /\ UNCHANGED <<how, appVars, cameraVars>>

\* the rest of default_callback, after the append
FanOutSteps ==
    \/ CopyQueues
    \/ \E q \in Callers : Put(q)
    \/ CallbackReturn

\* what a caller does once save_video has been entered; encoderResults says
\* whether AvWriter may raise
Extraction(c, encoderResults) ==
    \/ Register(c)
    \/ Boundary(c)
    \/ Get(c)
    \/ GetTimeout(c)
    \/ Unsubscribe(c)
    \/ \E ok \in encoderResults : MuxWrite(c, ok)
    \/ MuxReturn(c)

\* one trigger thread, every argument combination
Next ==
    \/ \E step \in TsSteps : BufferAppend(step)
    \/ FanOutSteps
    \/ \E b \in -1..MaxBefore, a \in -1..MaxAfter, f \in 1..MaxFps :
          Call(1, b, a, f, DirectCall)
    \/ Extraction(1, BOOLEAN)

Spec == Init /\ [][Next]_vars

\* several trigger threads at once, on a FrameBuffer that can serve them and
\* a producer whose timestamps strictly increase; the encoder works
InitConcurrent ==
    /\ Init
    /\ av
    /\ maxlen \in ConcurrentCapacities

NextConcurrent ==
    \/ BufferAppend(1)
    \/ FanOutSteps
    \/ \E c \in Callers, a \in ConcurrentAfter : Call(c, 1, a, 1, DirectCall)
    \/ \E c \in Callers : Extraction(c, {TRUE})

SpecConcurrent == InitConcurrent /\ [][NextConcurrent]_vars

\* the application sets app.stop_event to shut the process down
Shutdown ==
    /\ ~stoppedByOther
    /\ stop_event' = TRUE
    /\ stoppedByOther' = TRUE
    /\ UNCHANGED <<frameBufferVars, timeoutsAfterStop, cam_pc, state, failures>>

\* one trigger thread that enters through either entry point, with and
\* without a callback, while the application may shut down
NextApp ==
    \/ \E step \in TsSteps : BufferAppend(step)
    \/ FanOutSteps
    \/ \E a \in ConcurrentAfter, h \in Hows : Call(1, 1, a, 1, h)
    \/ Extraction(1, BOOLEAN)
    \/ Shutdown

SpecApp == InitConcurrent /\ [][NextApp]_vars

\* one trigger thread on a stream that never ends; after_seconds is 0, so
\* that video_frames_after stays finite: the first packet kept ends the loop
ExtractionLive(c) ==
    \/ Register(c)
    \/ Boundary(c)
    \/ GetLive(c)
    \/ GetTimeout(c)
    \/ Unsubscribe(c)
    \/ \E ok \in BOOLEAN : MuxWrite(c, ok)
    \/ MuxReturn(c)

ProducerLive ==
    \/ \E step \in TsSteps : Ingest(step)
    \/ FanOutSteps

NextLive ==
    \/ ProducerLive
    \/ Call(1, 1, 0, 1, DirectCall)
    \/ ExtractionLive(1)

\* the camera keeps calling default_callback, and a thread inside save_video
\* keeps running
SpecLive ==
    /\ InitConcurrent
    /\ [][NextLive]_vars
    /\ WF_vars(ProducerLive)
    /\ WF_vars(ExtractionLive(1))

\* ---- HubCamera
\* lines 34, 41, 181 and 152: __init__ sets UNKNOWN and calls
\* _get_sensor_names, which calls _connect, which sets CONNECTING
CameraNew ==
    /\ cam_pc = "off"
    /\ state' = "CONNECTING"
    /\ cam_pc' = "connect_check"
    /\ UNCHANGED <<frameBufferVars, appVars, failures, stoppedByOther>>

\* line 153: while not self.app.stop_event.is_set()
ConnectCheck ==
    /\ cam_pc = "connect_check"
    /\ cam_pc' = IF stop_event THEN "connect_returned" ELSE "connect_try"
    /\ UNCHANGED <<frameBufferVars, appVars, state, failures, stoppedByOther>>

\* lines 154-161: _init_device() succeeds, or raises and the error is logged
ConnectTry(ok) ==
    /\ cam_pc = "connect_try"
    /\ IF ok
       THEN /\ state' = "CONNECTED"
            /\ cam_pc' = "connect_returned"
            /\ UNCHANGED failures
       ELSE /\ failures < MaxFailures
            /\ failures' = failures + 1
            /\ cam_pc' = "connect_wait"
            /\ UNCHANGED state
    /\ UNCHANGED <<frameBufferVars, appVars, stoppedByOther>>

\* line 163: stop_event.wait(timeout) returns on the timeout or on the event
ConnectWait ==
    /\ cam_pc = "connect_wait"
    /\ cam_pc' = "connect_check"
    /\ UNCHANGED <<frameBufferVars, appVars, state, failures, stoppedByOther>>

\* lines 182-184 and 165-173: with a device, _disconnect sets DISCONNECTED
\* and __init__ returns; without one (the loop of _connect was left on
\* stop_event) reading the device raises out of __init__
GetSensorNames ==
    /\ cam_pc = "connect_returned"
    /\ IF state = "CONNECTED"
       THEN /\ state' = "DISCONNECTED"
            /\ cam_pc' = "constructed"
       ELSE /\ cam_pc' = "init_failed"
            /\ UNCHANGED state
    /\ UNCHANGED <<frameBufferVars, appVars, failures, stoppedByOther>>

\* line 124: start() is called on the constructed camera
StartCall ==
    /\ cam_pc = "constructed"
    /\ cam_pc' = "start_check"
    /\ UNCHANGED <<frameBufferVars, appVars, state, failures, stoppedByOther>>

\* line 128: while not self.app.stop_event.set(): Event.set() sets the event
\* and returns None, so the body is always entered
StartCheck ==
    /\ cam_pc = "start_check"
    /\ stop_event' = TRUE
    /\ cam_pc' = "start_try"
    /\ UNCHANGED <<frameBufferVars, timeoutsAfterStop, state, failures,
                   stoppedByOther>>

\* lines 129-134: oak_camera.start() succeeds and start returns, or raises
\* and the error is printed
StartTry(ok) ==
    /\ cam_pc = "start_try"
    /\ IF ok
       THEN /\ state' = "CONNECTED"
            /\ cam_pc' = "started"
            /\ UNCHANGED failures
       ELSE /\ failures < MaxFailures
            /\ failures' = failures + 1
            /\ cam_pc' = "start_sleep"
            /\ UNCHANGED state
    /\ UNCHANGED <<frameBufferVars, appVars, stoppedByOther>>

\* line 136: time.sleep(1)
StartSleep ==
    /\ cam_pc = "start_sleep"
    /\ cam_pc' = "start_check"
    /\ UNCHANGED <<frameBufferVars, appVars, state, failures, stoppedByOther>>

NextCamera ==
    \/ CameraNew
    \/ ConnectCheck
    \/ \E ok \in BOOLEAN : ConnectTry(ok)
    \/ ConnectWait
    \/ GetSensorNames
    \/ StartCall
    \/ StartCheck
    \/ \E ok \in BOOLEAN : StartTry(ok)
    \/ StartSleep
    \/ Shutdown

SpecCamera == Init /\ [][NextCamera]_vars


\* ---- properties

\* before_seconds * fps of the call
Wanted(c) == args[c].before * args[c].fps

\* the call has got past lines 81-88
Validated(c) ==
    /\ pc[c] # "idle"
    /\ Validate(args[c].before, args[c].after, args[c].fps) = "none"

\* the queue has been added to temporary_queues at some time
Subscribed(c) == pc[c] \notin {"idle", "sliced"}

\* the callbacks that ran wholly inside the queue's registration end here
WindowEnd(c) == IF c \in temporary_queues THEN Completed ELSE unregIdx[c]

\* C1: a registered queue receives every frame ingested between its
\* registration and its de-registration exactly once and in ingestion order:
\* what was put into it is one contiguous run of the ingestion sequence that
\* starts no later than the first frame appended after the registration and
\* reaches at least the last callback completed before the de-registration,
\* and the queue hands it out first-in first-out.
C1_QueueReceivesWindow ==
    \A c \in Callers : Subscribed(c) =>
        \E lo \in {regIdx[c], regIdx[c] + 1}, m \in 0..Len(ingested) :
            /\ lo >= 1
            /\ m >= lo - 1
            /\ m >= WindowEnd(c)
            /\ Delivered(c) = SubSeq(ingested, lo, m)

C1_Witness ==
    \E c \in Callers :
        /\ pc[c] = "unsubscribed"
        /\ regIdx[c] >= 1
        /\ Len(received[c]) >= 2
        /\ unregIdx[c] >= regIdx[c] + 2

\* C2: once the collection loop has ended, the after collection is exactly
\* the frames ingested after the trigger whose timestamp lies in
\* (boundary_timestamp, boundary_timestamp + after_seconds].
C2_AfterIsTheWindow ==
    \A c \in Callers : pc[c] \in {"collected", "unsubscribed", "muxing", "done"}
                       /\ video_frames_before[c] # <<>> =>
        LET InWindow(f) ==
                /\ f.id > Last(bufAtCall[c]).id
                /\ f.ts > latest_t_before[c]
                /\ f.ts <= latest_t_before[c] + timedelta(args[c].after)
        IN video_frames_after[c] = SelectSeq(ingested, InWindow)

\* C3: the before frames are the most recent min(n, L) frames the buffer
\* held when the slice was taken, n = before_seconds * fps <= capacity.
C3_BeforeIsMostRecent ==
    \A c \in Callers : Validated(c) =>
        video_frames_before[c] = MostRecent(bufAtCall[c], Wanted(c))

\* C4: a save_video call that has ended, by returning or by raising, has no
\* queue left in temporary_queues.
C4_NoQueueAfterTheCall ==
    \A c \in Callers : pc[c] = "done" => c \notin temporary_queues

\* C5: a call whose history slice is empty ends with the insufficient-history
\* error and has registered no queue.
C5_EmptyHistoryFailsFast ==
    \A c \in Callers :
        Validated(c) /\ pc[c] = "done" /\ video_frames_before[c] = <<>> =>
            /\ outcome[c] = "InsufficientHistory"
            /\ c \notin temporary_queues
            /\ queue[c] = <<>>

\* C6 as claimed: a call with before_seconds * fps above the finite capacity
\* always ends with the insufficient-history error, temporary_queues as before.
C6_AlwaysInsufficientHistory ==
    \A c \in Callers :
        pc[c] # "idle" /\ maxlen # None /\ Wanted(c) > maxlen =>
            /\ pc[c] = "done"
            /\ outcome[c] = "InsufficientHistory"
            /\ temporary_queues = queuesAtCall[c]

\* C6 as the code has it: such a call always ends with an error and
\* temporary_queues as before; the error is the insufficient-history one when
\* PyAV is importable and after_seconds is not negative, the earlier checks
\* of lines 81 and 85 coming first otherwise.
C6_OverCapacityRejected ==
    \A c \in Callers :
        pc[c] # "idle" /\ maxlen # None /\ Wanted(c) > maxlen =>
            /\ pc[c] = "done"
            /\ outcome[c] = IF ~av THEN "ImportError"
                            ELSE IF args[c].after < 0 THEN "InvalidParameter"
                            ELSE "InsufficientHistory"
            /\ temporary_queues = queuesAtCall[c]
            /\ c \notin temporary_queues

C6_Witness ==
    \E c \in Callers :
        /\ pc[c] = "done"
        /\ maxlen # None
        /\ Wanted(c) > maxlen
        /\ outcome[c] = "InsufficientHistory"
        /\ buffer # <<>>

\* the step in which save_video is entered with a negative seconds value
NegativeCall(c) ==
    /\ pc[c] = "idle"
    /\ pc'[c] # "idle"
    /\ (args'[c].before < 0 \/ args'[c].after < 0)

\* C7 as claimed: a call with a negative before_seconds or after_seconds ends
\* at once with the invalid-parameter error, temporary_queues and the buffer
\* left as they were.
C7_AlwaysInvalidParameter ==
    [][\A c \in Callers : NegativeCall(c) =>
          /\ pc'[c] = "done"
          /\ outcome'[c] = "InvalidParameter"
          /\ temporary_queues' = temporary_queues
          /\ buffer' = buffer]_vars

\* C7 as the code has it: such a call ends at once with an error,
\* temporary_queues, the queues and the buffer left as they were; the error
\* is the invalid-parameter one when PyAV is importable and the ImportError
\* of line 82 otherwise.
C7_NegativeRejected ==
    [][\A c \in Callers : NegativeCall(c) =>
          /\ pc'[c] = "done"
          /\ outcome'[c] = IF av THEN "InvalidParameter" ELSE "ImportError"
          /\ temporary_queues' = temporary_queues
          /\ queue' = queue
          /\ buffer' = buffer]_vars

C7_Witness ==
    \E c \in Callers :
        /\ pc[c] = "done"
        /\ args[c].after < 0
        /\ args[c].before >= 0
        /\ outcome[c] = "InvalidParameter"
        /\ buffer # <<>>

\* C8: a call with before_seconds = 0 and after_seconds = 0 made on a
\* non-empty buffer ends with an artifact (or the encoder's failure), its
\* history part at most one frame.
C8_ZeroWindowReturns ==
    \A c \in Callers :
        /\ Validated(c)
        /\ pc[c] = "done"
        /\ args[c].before = 0
        /\ args[c].after = 0
        /\ bufAtCall[c] # <<>>
        => /\ outcome[c] \in {"artifact", "MuxingFailure"}
           /\ Len(video_frames_before[c]) <= 1

\* C9: with a finite capacity the buffer is the most recent min(N, C) of the
\* N frames ingested, in arrival order, so never longer than C.
C9_BufferIsMostRecent ==
    maxlen # None =>
        /\ Len(buffer) <= maxlen
        /\ buffer = MostRecent(ingested, maxlen)

C9_Witness ==
    /\ maxlen # None
    /\ maxlen >= 2
    /\ Len(ingested) >= maxlen + 2
    /\ buffer # <<>>

\* the part of s ingested as frames lo..hi
Between(s, lo, hi) ==
    LET In(f) == f.id >= lo /\ f.id <= hi
    IN SelectSeq(s, In)

\* the frames whose callback ran while both queues were registered
BatchLo(c, d) == (IF regIdx[c] > regIdx[d] THEN regIdx[c] ELSE regIdx[d]) + 1
BatchHi(c, d) == Min(WindowEnd(c), WindowEnd(d))

\* C10, the batch: two queues registered together have been handed the same
\* ordered sequence of the frames ingested while both were registered, and
\* it is those frames, each once, in ingestion order.
C10_SameBatch ==
    \A c, d \in Callers : c # d /\ Subscribed(c) /\ Subscribed(d) =>
        /\ Between(Delivered(c), BatchLo(c, d), BatchHi(c, d))
             = Between(Delivered(d), BatchLo(c, d), BatchHi(c, d))
        /\ Between(Delivered(c), BatchLo(c, d), BatchHi(c, d))
             = SubSeq(ingested, BatchLo(c, d), BatchHi(c, d))

\* C10, the isolation: a queue loses a frame only as its own caller's get
\* takes its head, and that step leaves every other queue as it was.
C10_GetIsLocal ==
    \A c \in Callers : Len(queue'[c]) < Len(queue[c]) =>
        /\ pc[c] = "loop"
        /\ queue'[c] = Tail(queue[c])
        /\ received'[c] = Append(received[c], Head(queue[c]))
        /\ \A d \in Callers \ {c} : queue'[d] = queue[d]

\* C10: concurrent extractions see the same batch, each through a queue of
\* its own.
C10_IndependentQueues == [](C10_SameBatch) /\ [][C10_GetIsLocal]_vars

C10_Witness ==
    \E c, d \in Callers :
        /\ c # d
        /\ pc[c] = "collected"
        /\ pc[d] = "loop"
        /\ BatchHi(c, d) >= BatchLo(c, d) + 1
        /\ Len(received[c]) >= 2
        /\ received[d] = <<>>
        /\ Len(queue[d]) >= 2

\* C11: a path returned by _mux_video (return_bytes false) names a file that
\* still exists once the call has returned.
C11_PathIsDurable ==
    \A c \in Callers :
        pc[c] = "done" /\ outcome[c] = "artifact" /\ result[c] = "path"
            => c \in disk

\* C12: once shutdown has been signalled and a whole wait timeout has gone
\* by without any frame for the waiting call, the call has ended with the
\* Cancelled outcome and its queue is out of temporary_queues.
C12_CancelledWithinOneTimeout ==
    \A c \in Callers :
        timeoutsAfterStop[c] >= 2 /\ received[c] = <<>> =>
            /\ pc[c] = "done"
            /\ outcome[c] = "Cancelled"
            /\ c \notin temporary_queues

\* C15: a process_video_event call whose collection and muxing succeeded does
\* not raise and hands the mux result to send_video_event exactly once; a
\* supplied callback is called exactly once with that result, which is also
\* what save_video returns.
C15_CallbackIsOptional ==
    \A c \in Callers :
        /\ pc[c] = "done"
        /\ how[c].entry = "process_video_event"
        /\ outcome[c] \in {"artifact", "NotCallable"}
        => /\ outcome[c] = "artifact"
           /\ sent_events[c] = <<VideoRes(how[c])>>
           /\ result[c] = VideoRes(how[c])
           /\ how[c].callback = "supplied"
                 => on_complete_calls[c] = <<result[c]>>

\* the call has removed its queue from temporary_queues (line 109)
Unsubscribed(c) ==
    \/ pc[c] \in {"unsubscribed", "muxing"}
    \/ pc[c] = "done" /\ outcome[c] \in {"artifact", "MuxingFailure",
                                          "NotCallable"}

\* the call has handed its frame sequence to _mux_video
Muxed(c) ==
    \/ pc[c] = "muxing"
    \/ pc[c] = "done" /\ outcome[c] \in {"artifact", "MuxingFailure",
                                          "NotCallable"}

\* C14 as stated: after line 109 nothing is put into the removed queue, not
\* even by a default_callback that copied the set before the removal.
C14_NoPutAfterUnsubscribe ==
    [][\A c \in Callers : Unsubscribed(c) => queue'[c] = queue[c]]_vars

\* C14: after line 109 the removed queue only grows at its tail, and by at
\* most the one packet of the default_callback that was in flight at the
\* removal: no packet of a later default_callback is ever put into it.
C14_OnlyTheInFlightPacket ==
    /\ [](\A c \in Callers : Unsubscribed(c) =>
            \A i \in DOMAIN queue[c] : queue[c][i].id <= unregIdx[c] + 1)
    /\ [][\A c \in Callers : Unsubscribed(c) =>
            /\ Len(queue'[c]) >= Len(queue[c])
            /\ SubSeq(queue'[c], 1, Len(queue[c])) = queue[c]]_vars

C14_Witness ==
    \E c \in Callers :
        /\ Unsubscribed(c)
        /\ queue[c] # <<>>
        /\ Last(queue[c]).id = unregIdx[c] + 1

\* C16: with maxlen None a call either gets past the capacity check or ends
\* with the InsufficientHistory error and no queue registered; it never ends
\* with an error outside the classified ones.
C16_UnboundedCapacity ==
    \A c \in Callers :
        maxlen = None /\ pc[c] = "done" =>
            /\ outcome[c] # "TypeError"
            /\ outcome[c] = "InsufficientHistory" => c \notin temporary_queues

\* C17: the sequence handed to _mux_video is the before part followed by the
\* after part, in non-decreasing timestamp order and without any ingested
\* frame twice; every after frame is later than the boundary, and frames at
\* or before the boundary are all in the before part.
C17_MuxedIsOrdered ==
    \A c \in Callers : Muxed(c) =>
        /\ muxed[c] = video_frames_before[c] \o video_frames_after[c]
        /\ \A i, j \in DOMAIN muxed[c] : i < j =>
               /\ muxed[c][i].ts <= muxed[c][j].ts
               /\ muxed[c][i].id # muxed[c][j].id
        /\ \A i \in DOMAIN video_frames_after[c] :
               video_frames_after[c][i].ts > latest_t_before[c]
        /\ \A i \in DOMAIN muxed[c] :
               muxed[c][i].ts <= latest_t_before[c]
                   => i <= Len(video_frames_before[c])

\* a before frame was also delivered to the queue and was dropped by the loop
C17_Witness ==
    \E c \in Callers :
        /\ Muxed(c)
        /\ video_frames_after[c] # <<>>
        /\ \E i \in DOMAIN received[c] :
               /\ received[c][i].ts <= latest_t_before[c]
               /\ \E k \in DOMAIN video_frames_before[c] :
                      video_frames_before[c][k].id = received[c][i].id

\* C18: the buffer's frame sequence changes only in default_callback's append
\* (line 152); no step of save_video, get_slice or process_video_event, on
\* any path, changes it.
C18_OnlyCallbackChangesBuffer ==
    [][buffer' # buffer => ppc = "idle" /\ ppc' = "appended"]_vars

\* a call sliced a non-empty buffer and ran to its end
C18_Witness ==
    \E c \in Callers :
        /\ pc[c] = "done"
        /\ outcome[c] = "artifact"
        /\ video_frames_before[c] # <<>>
        /\ buffer # <<>>

\* C19: the sequence handed to _mux_video is a contiguous run of the
\* ingestion sequence: no frame ingested between its first and its last
\* frame is missing.
C19_ContiguousRun ==
    \A c \in Callers : Muxed(c) =>
        \A i \in 1..(Len(muxed[c]) - 1) :
            muxed[c][i + 1].id = muxed[c][i].id + 1

\* C20: start leaves stop_event as it found it: once start has returned the
\* camera is CONNECTED and stop_event is set only if some other party set it.
C20_StartLeavesStopEvent ==
    cam_pc = "started" =>
        /\ state = "CONNECTED"
        /\ stop_event => stoppedByOther

\* C13 as stated: with the producer ingesting for ever, timestamps never
\* decreasing, a call that is in its collection loop eventually has left the
\* loop, removed its queue and reached the mux step.
C13_LoopAlwaysEnds ==
    \A c \in Callers :
        pc[c] = "loop" ~>
            (pc[c] \in {"muxing", "done"} /\ c \notin temporary_queues)

\* C13: with the producer ingesting for ever, a call that is in its
\* collection loop when the stream's timestamps have passed the boundary by
\* more than after_seconds eventually has left the loop, removed its queue
\* and reached the mux step.
C13_LoopEndsOncePastWindow ==
    \A c \in Callers :
        (pc[c] = "loop" /\ WindowClosed(packet.ts, latest_t_before[c],
                                        args[c].after))
            ~> (pc[c] \in {"muxing", "done"} /\ c \notin temporary_queues)

C13_Witness ==
    \E c \in Callers :
        /\ pc[c] = "muxing"
        /\ c \notin temporary_queues
        /\ video_frames_after[c] # <<>>
        /\ WindowClosed(Last(video_frames_after[c]).ts, latest_t_before[c],
                        args[c].after)
====
